---------------------------- MODULE Spec2Model ----------------------------
(***************************************************************************)
(* Model of the spreadsheet-backed to-do repository (sheets_helper.py) and *)
(* of the listing view that consumes it (app.py).                          *)
(*                                                                         *)
(* A string is a sequence of characters, a character being a one-symbol    *)
(* TLA+ string.  Decimal digits are the characters "0".."9"; the Japanese  *)
(* words of the source are written as sequences of romanised symbols.      *)
(* A worksheet is a sequence of rows, a row a sequence of cells (strings), *)
(* kept without trailing empty cells and without trailing empty rows, as   *)
(* the Sheets API reports it.                                              *)
(***************************************************************************)
EXTENDS Integers, Sequences, FiniteSets, TLC

VARIABLES
    sheet,            \* the "Todos" worksheet of the backing store (row 1 = header)
    todos_cache,      \* _todos_cache: NONE or the cached list of todo dicts
    cache_timestamp,  \* _cache_timestamp: NONE or the clock value of the last refresh
    worksheet_cache,  \* _spreadsheet_cache/_worksheet_cache: TRUE when resolved
    clock,            \* datetime.now(), in seconds
    last,             \* history: the last operation, its arguments and its result
    assigned,         \* history: the ids successful adds have assigned so far
    requests          \* the add requests in flight: where each stands in add_todo
                      \* and its local variables

vars == <<sheet, todos_cache, cache_timestamp, worksheet_cache, clock, last, assigned,
          requests>>

\* Python's None; a value that may be None is <<>> or <<v>>
NONE == <<>>

Some(v) == <<v>>

Val(o) == o[1]

-----------------------------------------------------------------------------
(* Bounds of the model *)

MaxRows == 3        \* rows of the worksheet, header included
MaxId == 3          \* largest id an add may assign
MaxClock == 10      \* last clock value

(* Program constants *)

CACHE_DURATION == 10

\* seconds that pass in one Tick: two Ticks span the freshness window
TickStep == CACHE_DURATION \div 2

-----------------------------------------------------------------------------
(* Strings *)

Digits == <<"0", "1", "2", "3", "4", "5", "6", "7", "8", "9">>

DigitSet == {Digits[i] : i \in 1..10}

DigitVal(c) == CHOOSE i \in 0..9 : Digits[i + 1] = c

EMPTY == <<>>

\* str.isdigit(): non-empty and made of digits only
IsDigit(s) == Len(s) > 0 /\ \A i \in 1..Len(s) : s[i] \in DigitSet

\* int(s) for a string of digits
RECURSIVE ParseInt(_)
ParseInt(s) ==
    IF Len(s) = 0 THEN 0
    ELSE 10 * ParseInt(SubSeq(s, 1, Len(s) - 1)) + DigitVal(s[Len(s)])

\* str(n) for n >= 0
RECURSIVE IntToStr(_)
IntToStr(n) ==
    IF n < 10 THEN <<Digits[n + 1]>>
    ELSE Append(IntToStr(n \div 10), Digits[(n % 10) + 1])

\* code points, as far as the order of the characters in use needs them
CharCode(c) ==
    IF c = "-" THEN 45
    ELSE IF c \in DigitSet THEN 48 + DigitVal(c)
    ELSE 1000

\* Python's < on strings
RECURSIVE StrLess(_, _)
StrLess(a, b) ==
    IF Len(b) = 0 THEN FALSE
    ELSE IF Len(a) = 0 THEN TRUE
    ELSE IF a[1] = b[1] THEN StrLess(Tail(a), Tail(b))
    ELSE CharCode(a[1]) < CharCode(b[1])

-----------------------------------------------------------------------------
(* Words of the source *)

H_ID == <<"I", "D">>
H_TITLE == <<"taitoru">>          \* "タイトル"
H_CONTENT == <<"naiyou">>         \* "内容"
H_DUE == <<"kijitsu">>            \* "期日"
H_PRIORITY == <<"juuyoudo">>      \* "重要度"
H_CREATED == <<"sakuseinichiji">> \* "作成日時"
H_STATUS == <<"sute-tasu">>       \* "ステータス"

HEADER == <<H_ID, H_TITLE, H_CONTENT, H_DUE, H_PRIORITY, H_CREATED, H_STATUS>>

HIGH == <<"kou">>             \* "高"
MEDIUM == <<"chuu">>          \* "中"
LOW == <<"tei">>              \* "低"
COMPLETED == <<"kan", "ryou">> \* "完了"
ALL == <<"a", "l", "l">>

-----------------------------------------------------------------------------
(* The worksheet, as gspread presents it *)

RECURSIVE TrimRow(_)
TrimRow(r) ==
    IF Len(r) > 0 /\ r[Len(r)] = EMPTY THEN TrimRow(SubSeq(r, 1, Len(r) - 1))
    ELSE r

RECURSIVE TrimRows(_)
TrimRows(rows) ==
    IF Len(rows) > 0 /\ rows[Len(rows)] = <<>>
    THEN TrimRows(SubSeq(rows, 1, Len(rows) - 1))
    ELSE rows

Normalise(rows) == TrimRows([i \in 1..Len(rows) |-> TrimRow(rows[i])])

Max(a, b) == IF a > b THEN a ELSE b

PadRow(r, n) == [j \in 1..Max(n, Len(r)) |-> IF j <= Len(r) THEN r[j] ELSE EMPTY]

\* worksheet.row_values(n)
row_values(sh, n) == IF n <= Len(sh) THEN sh[n] ELSE <<>>

RECURSIVE MaxWidth(_)
MaxWidth(sh) ==
    IF Len(sh) = 0 THEN 0 ELSE Max(Len(sh[1]), MaxWidth(Tail(sh)))

\* worksheet.get_all_values(): the used rows, padded to one width
get_all_values(sh) == [i \in 1..Len(sh) |-> PadRow(sh[i], MaxWidth(sh))]

\* worksheet.update(range, [values]): overwrite cells col.. of row n
update(sh, n, col, values) ==
    LET ext == [i \in 1..Max(Len(sh), n) |-> IF i <= Len(sh) THEN sh[i] ELSE <<>>]
        old == PadRow(ext[n], col + Len(values) - 1)
        new == [j \in 1..Len(old) |->
                   IF j >= col /\ j < col + Len(values) THEN values[j - col + 1]
                   ELSE old[j]]
    IN  Normalise([ext EXCEPT ![n] = new])

\* worksheet.append_row(values): after the last used row
append_row(sh, values) == Normalise(Append(sh, values))

\* worksheet.delete_rows(n)
delete_rows(sh, n) ==
    IF n <= Len(sh)
    THEN Normalise([i \in 1..(Len(sh) - 1) |-> IF i < n THEN sh[i] ELSE sh[i + 1]])
    ELSE sh


-----------------------------------------------------------------------------
(* sheets_helper.py: the process-wide state as one record                    *)
(*   sheet: the worksheet, todos/ts: the read cache, ws: the resolved store  *)

Globals == [sheet |-> sheet, todos |-> todos_cache, ts |-> cache_timestamp,
            ws |-> worksheet_cache]

\* the header repair of get_or_create_spreadsheet (lines 131-160)
ensure_header(sh) ==
    LET header_row == row_values(sh, 1)
    IN  IF Len(header_row) = 0 THEN update(sh, 1, 1, HEADER)
        ELSE IF header_row[1] # H_ID \/ Len(header_row) < 7 THEN
            IF Len(header_row) < 7 THEN
                IF Len(header_row) < 5 THEN update(sh, 1, 1, HEADER)
                ELSE IF Len(header_row) < 6 THEN update(sh, 1, 1, HEADER)
                ELSE LET g1 == update(sh, 1, 7, <<H_STATUS>>)
                     IN  IF header_row[5] # H_PRIORITY
                         THEN update(g1, 1, 5, <<H_PRIORITY>>)
                         ELSE g1
            ELSE update(sh, 1, 1, HEADER)
        ELSE sh

\* get_or_create_spreadsheet(); io.open_fails: client.open_by_key raises
get_or_create_spreadsheet(g, io) ==
    IF g.ws THEN [g |-> g, raised |-> FALSE]
    ELSE IF io.open_fails THEN [g |-> g, raised |-> TRUE]
    ELSE [g |-> [g EXCEPT !.sheet = ensure_header(g.sheet), !.ws = TRUE],
          raised |-> FALSE]

\* clear_cache() were it to leave the resolved store in place
clear_cache_keeps_store(g) == [g EXCEPT !.todos = NONE, !.ts = NONE]

clear_cache(g) == [g EXCEPT !.todos = NONE, !.ts = NONE, !.ws = FALSE]

\* one todo dict from row i of all_values (lines 227-244)
MakeTodo(row, i) ==
    [id         |-> IF Len(row) > 0 /\ row[1] # EMPTY THEN row[1] ELSE EMPTY,
     row        |-> i,
     title      |-> IF Len(row) > 1 THEN row[2] ELSE EMPTY,
     content    |-> IF Len(row) > 2 THEN row[3] ELSE EMPTY,
     due_date   |-> IF Len(row) > 3 THEN row[4] ELSE EMPTY,
     priority   |-> IF Len(row) > 4 THEN row[5] ELSE MEDIUM,
     created_at |-> IF Len(row) > 5 THEN row[6] ELSE EMPTY,
     status     |-> IF Len(row) > 6 THEN row[7] ELSE EMPTY]

\* the loop were it to skip the rows whose id is no decimal number
RECURSIVE BuildTodos_numeric(_, _)
BuildTodos_numeric(all_values, i) ==
    IF i > Len(all_values) THEN <<>>
    ELSE LET row == all_values[i]
         IN  IF Len(row) = 0 \/ ~IsDigit(row[1])
             THEN BuildTodos_numeric(all_values, i + 1)
             ELSE <<MakeTodo(row, i)>> \o BuildTodos_numeric(all_values, i + 1)

\* the loop of get_all_todos over all_values[1:] (lines 219-244)
RECURSIVE BuildTodos(_, _)
BuildTodos(all_values, i) ==
    IF i > Len(all_values) THEN <<>>
    ELSE LET row == all_values[i]
         IN  IF Len(row) = 0 \/ row[1] = EMPTY
             THEN BuildTodos(all_values, i + 1)
             ELSE <<MakeTodo(row, i)>> \o BuildTodos(all_values, i + 1)

\* the freshness test of get_all_todos (lines 203-204)
CacheFresh(g, now) ==
    /\ g.todos # NONE
    /\ g.ts # NONE
    /\ now - Val(g.ts) < CACHE_DURATION

\* the result of a read: the globals afterwards (g), whether it raised, the
\* list returned (ret), whether the backing store was asked (fetched), whether
\* the list returned is the very list object kept in _todos_cache (shared)
ReadResult(g, raised, ret, fetched, shared) ==
    [g |-> g, raised |-> raised, ret |-> ret, fetched |-> fetched, shared |-> shared]

\* the fetch were it to have no handler for a failing get_all_values
fetch_todos_unhandled(g, now, io, all_values) ==
    IF io.read_fails THEN ReadResult(g, TRUE, <<>>, TRUE, FALSE)
    ELSE IF Len(all_values) <= 1 THEN ReadResult(g, FALSE, <<>>, TRUE, FALSE)
    ELSE ReadResult([g EXCEPT !.todos = Some(BuildTodos(all_values, 2)),
                              !.ts = Some(now)],
                    FALSE, BuildTodos(all_values, 2), TRUE, TRUE)

\* get_all_todos() from worksheet.get_all_values() on (lines 213-254);
\* io.read_fails: get_all_values raises and the handler returns []
fetch_todos(g, now, io, all_values) ==
    IF io.read_fails THEN ReadResult(g, FALSE, <<>>, TRUE, FALSE)
    ELSE IF Len(all_values) <= 1 THEN ReadResult(g, FALSE, <<>>, TRUE, FALSE)
    ELSE ReadResult([g EXCEPT !.todos = Some(BuildTodos(all_values, 2)),
                              !.ts = Some(now)],
                    FALSE, BuildTodos(all_values, 2), TRUE, TRUE)

\* get_all_todos() on a cache miss; r: what get_or_create_spreadsheet() did
refresh_todos(r, now, io) ==
    IF r.raised THEN ReadResult(r.g, TRUE, <<>>, FALSE, FALSE)
    ELSE fetch_todos(r.g, now, io, get_all_values(r.g.sheet))

\* get_all_todos()
get_all_todos(g, now, io) ==
    IF CacheFresh(g, now) THEN ReadResult(g, FALSE, Val(g.todos), FALSE, FALSE)
    ELSE refresh_todos(get_or_create_spreadsheet(g, io), now, io)

\* the filter were the open tasks those with an empty status
filter_todos_strict(r, status_filter) ==
    LET IsOpen(t) == t.status = EMPTY
        IsDone(t) == t.status = COMPLETED
    IN  IF r.raised THEN r
        ELSE IF status_filter = NONE
        THEN [r EXCEPT !.ret = SelectSeq(r.ret, IsOpen), !.shared = FALSE]
        ELSE IF status_filter = Some(COMPLETED)
        THEN [r EXCEPT !.ret = SelectSeq(r.ret, IsDone), !.shared = FALSE]
        ELSE r

\* the filter of get_all_todos_filtered (lines 356-364); r: what
\* get_all_todos() did
filter_todos(r, status_filter) ==
    LET IsOpen(t) == ~(t.status # EMPTY) \/ t.status # COMPLETED
        IsDone(t) == t.status = COMPLETED
    IN  IF r.raised THEN r
        ELSE IF status_filter = NONE
        THEN [r EXCEPT !.ret = SelectSeq(r.ret, IsOpen), !.shared = FALSE]
        ELSE IF status_filter = Some(COMPLETED)
        THEN [r EXCEPT !.ret = SelectSeq(r.ret, IsDone), !.shared = FALSE]
        ELSE r

\* get_all_todos_filtered(status_filter)
get_all_todos_filtered(g, now, io, status_filter) ==
    filter_todos(get_all_todos(g, now, io), status_filter)

Pad2(n) == (IF n < 10 THEN <<"0">> ELSE <<>>) \o IntToStr(n)

\* a date as "%Y-%m-%d"
DateStr(y, m, d) == IntToStr(y) \o <<"-">> \o Pad2(m) \o <<"-">> \o Pad2(d)

\* the day the process runs on, and the days the listing view derives from it
TODAY == DateStr(2025, 1, 7)
WEEK_LATER == DateStr(2025, 1, 14)
MONTH_LATER == DateStr(2025, 2, 6)

\* datetime.now().strftime("%Y-%m-%d %H:%M:%S"), now being seconds into the day
strftime(now) == <<"2025-01-07 00:00:">> \o Pad2(now)

RECURSIVE MaxOf(_)
MaxOf(S) ==
    LET x == CHOOSE y \in S : TRUE
    IN  IF Cardinality(S) = 1 THEN x ELSE Max(x, MaxOf(S \ {x}))

\* int(todo["id"]) for todo in todos if todo["id"].isdigit()
NumericIds(todos) ==
    {ParseInt(todos[i].id) : i \in {j \in 1..Len(todos) : IsDigit(todos[j].id)}}

\* max() of an empty sequence raises ValueError (line 274)
new_id_raises(todos) == Len(todos) > 0 /\ NumericIds(todos) = {}

\* the id computation were it to count the tasks
new_id_count(todos) == IntToStr(Len(todos) + 1)

\* the id computation were it to step by two
new_id_skip(todos) ==
    IF Len(todos) > 0
    THEN IntToStr(MaxOf(NumericIds(todos)) + 2)
    ELSE IntToStr(1)

\* the id computation of add_todo (lines 272-277)
new_id(todos) ==
    IF Len(todos) > 0
    THEN IntToStr(MaxOf(NumericIds(todos)) + 1)
    ELSE IntToStr(1)

\* the appended row were title and content to change places
new_row_swapped(id, form, created_at) ==
    <<id, form[2], form[1], form[3], form[4], created_at, EMPTY>>

\* the row add_todo appends (line 283)
new_row(id, form, created_at) ==
    <<id, form[1], form[2], form[3], form[4], created_at, EMPTY>>

\* the result of add_todo: the id of the task added and the list add read
AddResult(g, raised, id, read) == [g |-> g, raised |-> raised, id |-> id, read |-> read]

\* add_todo from the id computation on (lines 272-296); r1: what
\* get_all_todos_filtered("all") did; io.write_fails: append_row raises
append_todo(r1, now, io, form) ==
    IF r1.raised THEN AddResult(r1.g, TRUE, EMPTY, <<>>)
    ELSE IF new_id_raises(r1.ret) THEN AddResult(r1.g, TRUE, EMPTY, r1.ret)
    ELSE IF io.write_fails THEN AddResult(r1.g, TRUE, EMPTY, r1.ret)
    ELSE AddResult(
             clear_cache([r1.g EXCEPT
                 !.sheet = append_row(@, new_row(new_id(r1.ret), form, strftime(now)))]),
             FALSE, new_id(r1.ret), r1.ret)

\* add_todo after its first line; r0: what get_or_create_spreadsheet() did
read_and_append(r0, now, io, form) ==
    IF r0.raised THEN AddResult(r0.g, TRUE, EMPTY, <<>>)
    ELSE append_todo(get_all_todos_filtered(r0.g, now, io, Some(ALL)), now, io, form)

\* add_todo(title, content, due_date, priority); form = <<title, content,
\* due_date, priority>>
add_todo(g, now, io, form) ==
    read_and_append(get_or_create_spreadsheet(g, io), now, io, form)

\* the result of a write that returns nothing
WriteResult(g, raised) == [g |-> g, raised |-> raised]

\* the write of update_todo were it to cover columns B to F
update_cells_wide(r0, io, row, form) ==
    IF r0.raised \/ io.write_fails THEN WriteResult(r0.g, TRUE)
    ELSE WriteResult(
             clear_cache([r0.g EXCEPT !.sheet = update(@, row, 2, form \o <<EMPTY>>)]),
             FALSE)

\* update_todo after its first line (lines 311-315); r0: what
\* get_or_create_spreadsheet() did; io.write_fails: worksheet.update raises
update_cells(r0, io, row, form) ==
    IF r0.raised \/ io.write_fails THEN WriteResult(r0.g, TRUE)
    ELSE WriteResult(clear_cache([r0.g EXCEPT !.sheet = update(@, row, 2, form)]),
                     FALSE)

\* update_todo(row, title, content, due_date, priority)
update_todo(g, io, row, form) ==
    update_cells(get_or_create_spreadsheet(g, io), io, row, form)

\* delete_todo after its first line (lines 324-328)
delete_row(r0, io, row) ==
    IF r0.raised \/ io.write_fails THEN WriteResult(r0.g, TRUE)
    ELSE WriteResult(clear_cache([r0.g EXCEPT !.sheet = delete_rows(@, row)]), FALSE)

\* delete_todo(row)
delete_todo(g, io, row) == delete_row(get_or_create_spreadsheet(g, io), io, row)

\* the write of complete_todo were it to go to column F
set_status_created(r0, io, row) ==
    IF r0.raised \/ io.write_fails THEN WriteResult(r0.g, TRUE)
    ELSE WriteResult(
             clear_cache([r0.g EXCEPT !.sheet = update(@, row, 6, <<COMPLETED>>)]),
             FALSE)

\* complete_todo after its first line (lines 338-342)
set_status(r0, io, row) ==
    IF r0.raised \/ io.write_fails THEN WriteResult(r0.g, TRUE)
    ELSE WriteResult(
             clear_cache([r0.g EXCEPT !.sheet = update(@, row, 7, <<COMPLETED>>)]),
             FALSE)

\* complete_todo(row)
complete_todo(g, io, row) == set_status(get_or_create_spreadsheet(g, io), io, row)

-----------------------------------------------------------------------------
(* app.py: the listing view *)

F_ALL == <<"subete">>            \* "すべて"
F_TODAY == <<"kyou">>            \* "今日"
F_WEEK == <<"konshuu">>          \* "今週"
F_MONTH == <<"kongetsu">>        \* "今月"
F_OVERDUE == <<"kigengire">>     \* "期限切れ"
F_UNSET == <<"kijitsumisettei">> \* "期日未設定"
F_OPEN == <<"mikanryou">>        \* "未完了"
SORT_PRIORITY == <<"priority">>
SORT_DUE == <<"due_date">>
FAR_FUTURE == DateStr(9999, 12, 31)

StrLeq(a, b) == a = b \/ StrLess(a, b)

\* priority_order.get(x.get("priority", "中"), 2)
priority_order(p) ==
    IF p = HIGH THEN 3 ELSE IF p = MEDIUM THEN 2 ELSE IF p = LOW THEN 1 ELSE 2

\* the sort keys of index(), compared as Python compares tuples
KeyLess(x, y, sort_by) ==
    IF sort_by = SORT_PRIORITY
    THEN \/ priority_order(x.priority) < priority_order(y.priority)
         \/ /\ priority_order(x.priority) = priority_order(y.priority)
            /\ StrLess(x.due_date, y.due_date)
    ELSE LET dx == IF x.due_date # EMPTY THEN x.due_date ELSE FAR_FUTURE
             dy == IF y.due_date # EMPTY THEN y.due_date ELSE FAR_FUTURE
         IN  \/ StrLess(dx, dy)
             \/ /\ dx = dy
                /\ priority_order(x.priority) < priority_order(y.priority)

\* x comes strictly before y in the order list.sort() produces
Before(x, y, sort_by) ==
    IF sort_by = SORT_PRIORITY THEN KeyLess(y, x, sort_by)  \* reverse=True
    ELSE KeyLess(x, y, sort_by)

\* insert x behind every element that is not after it: a stable sort
RECURSIVE InsertStable(_, _, _)
InsertStable(x, sorted, sort_by) ==
    IF Len(sorted) = 0 THEN <<x>>
    ELSE IF Before(x, sorted[Len(sorted)], sort_by)
    THEN Append(InsertStable(x, SubSeq(sorted, 1, Len(sorted) - 1), sort_by),
                sorted[Len(sorted)])
    ELSE Append(sorted, x)

\* list.sort(key=..., reverse=...)
RECURSIVE SortTodos(_, _)
SortTodos(todos, sort_by) ==
    IF Len(todos) = 0 THEN <<>>
    ELSE InsertStable(todos[Len(todos)],
                      SortTodos(SubSeq(todos, 1, Len(todos) - 1), sort_by), sort_by)

\* the due-date filter of index() (lines 53-62)
DueMatches(t, f) ==
    IF f = F_TODAY THEN t.due_date = TODAY
    ELSE IF f = F_WEEK
    THEN t.due_date # EMPTY /\ StrLeq(TODAY, t.due_date) /\ StrLeq(t.due_date, WEEK_LATER)
    ELSE IF f = F_MONTH
    THEN t.due_date # EMPTY /\ StrLeq(TODAY, t.due_date) /\ StrLeq(t.due_date, MONTH_LATER)
    ELSE IF f = F_OVERDUE THEN t.due_date # EMPTY /\ StrLess(t.due_date, TODAY)
    ELSE IF f = F_UNSET THEN t.due_date = EMPTY
    ELSE TRUE

DueFilters == {F_TODAY, F_WEEK, F_MONTH, F_OVERDUE, F_UNSET}

\* the status_filter index() hands to get_all_todos_filtered (lines 36-41)
status_arg(status_filter) ==
    IF status_filter = COMPLETED THEN Some(COMPLETED)
    ELSE IF status_filter = F_ALL THEN Some(ALL)
    ELSE NONE

\* lines 44-45
filter_priority(todos, priority_filter) ==
    LET PrioOk(t) == t.priority = priority_filter
    IN  IF priority_filter # F_ALL THEN SelectSeq(todos, PrioOk) ELSE todos

\* lines 53-62
filter_due(todos, due_date_filter) ==
    LET DueOk(t) == DueMatches(t, due_date_filter)
    IN  IF due_date_filter \in DueFilters THEN SelectSeq(todos, DueOk) ELSE todos

\* lines 68-73
sort_todos(todos, sort_by) ==
    IF sort_by \in {SORT_PRIORITY, SORT_DUE} THEN SortTodos(todos, sort_by) ELSE todos

\* the list index() renders (listed), and the globals afterwards.
\* todos.sort() sorts in place: when no filter has rebound todos to a new
\* list, the list sorted is the one get_all_todos returned, and when that is
\* the list kept in _todos_cache the cache is sorted with it.
render(r, priority_filter, due_date_filter, sort_by, listed) ==
    IF r.raised THEN [g |-> r.g, ret |-> <<>>, fetched |-> r.fetched]
    ELSE [g |-> IF /\ r.shared
                   /\ priority_filter = F_ALL
                   /\ due_date_filter \notin DueFilters
                   /\ sort_by \in {SORT_PRIORITY, SORT_DUE}
                THEN [r.g EXCEPT !.todos = Some(listed)]
                ELSE r.g,
          ret |-> listed, fetched |-> r.fetched]

\* index() after the read; r: what get_all_todos_filtered() did
index_view(r, priority_filter, due_date_filter, sort_by) ==
    render(r, priority_filter, due_date_filter, sort_by,
           sort_todos(filter_due(filter_priority(r.ret, priority_filter),
                                 due_date_filter),
                      sort_by))

\* index()
index(g, now, io, status_filter, priority_filter, due_date_filter, sort_by) ==
    index_view(get_all_todos_filtered(g, now, io, status_arg(status_filter)),
               priority_filter, due_date_filter, sort_by)

-----------------------------------------------------------------------------
(* Inputs *)

DUE_EARLY == DateStr(2025, 1, 5)
DUE_LATE == DateStr(2025, 1, 10)
ON_HOLD == <<"horyuu">>           \* "保留": a status that is neither "" nor "完了"

\* <<title, content, due_date, priority>> as a request may carry them
Forms ==
    { <<<<"a">>, EMPTY, DUE_LATE, HIGH>>,
      <<<<"b">>, <<"c">>, DUE_EARLY, LOW>> }

\* a row written by an earlier version of the program or by hand
LegacyRow == <<IntToStr(2), <<"b">>, EMPTY, DUE_EARLY, LOW, strftime(0), ON_HOLD>>

InitSheets == { <<HEADER>>, <<HEADER, LegacyRow>> }

\* the rows that hold a task: the row handles a prior read hands out
TaskRows(sh) == {i \in 2..Len(sh) : Len(sh[i]) > 0 /\ sh[i][1] # EMPTY}

\* which calls to the backing store succeed in one operation: at most one
\* fails, and only a call the operation makes
OK == [open_fails |-> FALSE, read_fails |-> FALSE, write_fails |-> FALSE]
OpenFails == [OK EXCEPT !.open_fails = TRUE]
ReadFails == [OK EXCEPT !.read_fails = TRUE]
WriteFails == [OK EXCEPT !.write_fails = TRUE]
Opens == {OK} \cup (IF worksheet_cache THEN {} ELSE {OpenFails})
Reads == IF CacheFresh(Globals, clock) THEN {} ELSE {ReadFails}
ReadIOs == Opens \cup Reads
WriteIOs == Opens \cup {WriteFails}
AddIOs == Opens \cup Reads \cup {WriteFails}

StatusFilters == {NONE, Some(COMPLETED), Some(ALL)}
\* the query strings of GET /: <<status, priority, due_date, sort>>
ViewQueries ==
    { <<F_ALL, F_ALL, F_ALL, SORT_PRIORITY>>,
      <<F_ALL, F_ALL, F_ALL, SORT_DUE>>,
      <<F_OPEN, HIGH, F_ALL, SORT_PRIORITY>>,
      <<COMPLETED, F_ALL, F_OVERDUE, SORT_DUE>> }

Mutators == {"add", "update", "delete", "complete"}

-----------------------------------------------------------------------------
(* The state machine *)

\* the record of an operation: its name (op), whether it returned (ok) or
\* raised, the row it was given, the id it assigned; for list_all the list it
\* returned (ret), whether it asked the backing store for the rows (fetched),
\* whether the store answered (readok), when it ran (at) and the operation
\* before it (prev); for add whether
\* its own read of the tasks succeeded (readok), whether the id had not been
\* assigned before (fresh) and whether only adds ran since the store held no
\* task (chain)
NoOp ==
    [op |-> "init", ok |-> TRUE, row |-> 0, id |-> EMPTY, ret |-> <<>>,
     fetched |-> FALSE, readok |-> TRUE, at |-> 0, prev |-> "", fresh |-> TRUE,
     chain |-> FALSE]

\* an operation that raised to its caller
Raised == [NoOp EXCEPT !.op = "raised", !.ok = FALSE]

\* no add request is in flight
NoRequests == [t \in {} |-> 0]

Init ==
    /\ sheet \in InitSheets
    /\ todos_cache = NONE
    /\ cache_timestamp = NONE
    /\ worksheet_cache = FALSE
    /\ clock = 0
    /\ last = NoOp
    /\ assigned = {}
    /\ requests = NoRequests

SetGlobals(g) ==
    /\ sheet' = g.sheet
    /\ todos_cache' = g.todos
    /\ cache_timestamp' = g.ts
    /\ worksheet_cache' = g.ws

Tick ==
    /\ clock + TickStep <= MaxClock
    /\ clock' = clock + TickStep
    /\ UNCHANGED <<sheet, todos_cache, cache_timestamp, worksheet_cache, last, assigned,
                   requests>>

\* r: what the operation's function did
ListAllReturns(r, io) ==
    /\ SetGlobals(r.g)
    /\ last' = IF r.raised THEN Raised
               ELSE [NoOp EXCEPT !.op = "list_all", !.ret = r.ret,
                                 !.fetched = r.fetched, !.readok = ~io.read_fails,
                                 !.at = clock, !.prev = last.op]
    /\ UNCHANGED <<clock, assigned, requests>>

ListAll ==
    \E io \in ReadIOs : ListAllReturns(get_all_todos(Globals, clock, io), io)

ListFilteredReturns(r) ==
    /\ SetGlobals(r.g)
    /\ last' = IF r.raised THEN Raised ELSE [NoOp EXCEPT !.op = "list_filtered"]
    /\ UNCHANGED <<clock, assigned, requests>>

ListFiltered ==
    \E io \in ReadIOs, f \in StatusFilters :
        ListFilteredReturns(get_all_todos_filtered(Globals, clock, io, f))

IndexReturns(r) ==
    /\ SetGlobals(r.g)
    /\ last' = [NoOp EXCEPT !.op = "index"]
    /\ UNCHANGED <<clock, assigned, requests>>

Index ==
    \E io \in ReadIOs, q \in ViewQueries :
        IndexReturns(index(Globals, clock, io, q[1], q[2], q[3], q[4]))

\* track: whether the history of the ids assigned is kept
AddReturns(r, io, track) ==
    /\ Len(r.g.sheet) <= MaxRows
    /\ r.raised \/ ParseInt(r.id) <= MaxId
    /\ SetGlobals(r.g)
    /\ last' = IF r.raised THEN Raised
               ELSE [NoOp EXCEPT !.op = "add", !.id = r.id,
                         !.readok = ~io.read_fails,
                         !.fresh = r.id \notin assigned,
                         !.chain = \/ TaskRows(sheet) = {}
                                   \/ last.op = "add" /\ last.chain]
    /\ assigned' = IF r.raised \/ ~track THEN assigned ELSE assigned \cup {r.id}
    /\ UNCHANGED <<clock, requests>>

AddOp(track) ==
    \E io \in AddIOs, form \in Forms :
        AddReturns(add_todo(Globals, clock, io, form), io, track)

Add == AddOp(FALSE)

AddTracked == AddOp(TRUE)

WriteReturns(r, op, row) ==
    /\ SetGlobals(r.g)
    /\ last' = IF r.raised THEN Raised ELSE [NoOp EXCEPT !.op = op, !.row = row]
    /\ UNCHANGED <<clock, assigned, requests>>

Update ==
    \E io \in WriteIOs, row \in TaskRows(sheet), form \in Forms :
        WriteReturns(update_todo(Globals, io, row, form), "update", row)

Delete ==
    \E io \in WriteIOs, row \in TaskRows(sheet) :
        WriteReturns(delete_todo(Globals, io, row), "delete", row)

Complete ==
    \E io \in WriteIOs, row \in TaskRows(sheet) :
        WriteReturns(complete_todo(Globals, io, row), "complete", row)

Next ==
    \/ Tick
    \/ ListAll
    \/ ListFiltered
    \/ Index
    \/ Add
    \/ Update
    \/ Delete
    \/ Complete

Spec == Init /\ [][Next]_vars

\* the repository alone, at one instant: the four mutating operations and
\* the two reads, with the history of the ids assigned
NextStore ==
    \/ AddTracked
    \/ Update
    \/ Delete
    \/ Complete
    \/ ListAll
    \/ ListFiltered

SpecStore == Init /\ [][NextStore]_vars

-----------------------------------------------------------------------------
(* Vocabulary of the properties *)

\* the cell at row i, column j of a worksheet ("" when unused)
Cell(sh, i, j) == IF i <= Len(sh) /\ j <= Len(sh[i]) THEN sh[i][j] ELSE EMPTY

NCols == Len(HEADER)

\* what a read that reaches the backing store finds in worksheet sh
ReadBack(sh) == BuildTodos(get_all_values(sh), 2)

\* the id cells below the header, in row order
Ids(sh) == [i \in 1..(Len(sh) - 1) |-> Cell(sh, i + 1, 1)]

RemoveAt(seq, k) == [i \in 1..(Len(seq) - 1) |-> IF i < k THEN seq[i] ELSE seq[i + 1]]

\* the step just taken is the operation named op, and it returned
Did(op) == last'.op = op /\ clock' = clock /\ vars' # vars

-----------------------------------------------------------------------------
(* C1: starting from a store with no tasks, successive successful adds with   *)
(* nothing in between assign ids that are decimal strings, the first "1",     *)
(* each numerically larger than the one before.                               *)
C1_AddIdsIncrease ==
    [][ (Did("add") /\ last'.chain) =>
            /\ IsDigit(last'.id)
            /\ IF last.op = "add" /\ last.chain
               THEN ParseInt(last'.id) > ParseInt(last.id)
               ELSE last'.id = IntToStr(1) ]_vars

(* C2, as claimed: an id an add assigned is never assigned by a later add     *)
(* (stated for the adds whose own read of the task list succeeded).           *)
C2_NeverReassigned == (last.op = "add" /\ last.readok) => last.fresh

(* C2, amended: no operation changes the id of an existing task (add appends  *)
(* one id, update, complete and the reads keep every id in place, delete      *)
(* removes the id of its row and keeps the others), and the id add assigns is *)
(* "1" or one more than the numeric id of a task in the store.                *)
C2_IdsKeptAndSuccessor ==
    [][ /\ Did("add") =>
              /\ Ids(sheet') = Append(Ids(sheet), last'.id)
              /\ \/ last'.id = IntToStr(1)
                 \/ \E i \in 1..Len(Ids(sheet)) :
                       /\ IsDigit(Ids(sheet)[i])
                       /\ ParseInt(last'.id) = ParseInt(Ids(sheet)[i]) + 1
        /\ Did("delete") => Ids(sheet') = RemoveAt(Ids(sheet), last'.row - 1)
        /\ (~Did("add") /\ ~Did("delete")) => Ids(sheet') = Ids(sheet) ]_vars

\* an add has assigned an id that an earlier add had assigned
C2_Witness == last.op = "add" /\ ~last.fresh /\ last.readok

(* C3: after a successful add, update, complete or delete the read cache      *)
(* (list and timestamp) and the resolved-store cache are empty, and a         *)
(* list_all that comes next asks the backing store and returns the rows the   *)
(* store then holds.                                                          *)
C3_MutationClearsCaches ==
    /\ (last.op \in Mutators /\ last.ok) =>
           /\ todos_cache = NONE
           /\ cache_timestamp = NONE
           /\ worksheet_cache = FALSE
    /\ (last.op = "list_all" /\ last.prev \in Mutators) =>
           /\ last.fetched
           /\ last.readok => last.ret = ReadBack(sheet)

\* a list_all right after a mutation has fetched a non-empty store, later
\* than a task of the store was created
C3_Witness ==
    /\ last.op = "list_all"
    /\ last.prev \in Mutators
    /\ last.fetched
    /\ Len(last.ret) > 1
    /\ clock > 0

(* C4: of two list_all calls less than CACHE_DURATION apart with no operation *)
(* between them, the second returns the same data and performs no             *)
(* backing-store fetch (stated for calls the store answers).                  *)
C4_SecondReadCached ==
    [][ ( /\ Did("list_all")
          /\ last.op = "list_all"
          /\ last.readok /\ last'.readok
          /\ clock - last.at < CACHE_DURATION )
        => (~last'.fetched /\ last'.ret = last.ret) ]_vars

\* C4 for a store that holds a task: a list_all made less than CACHE_DURATION
\* after a list_all that fetched at least one task, with no operation between
\* them, performs no fetch and returns the same list; a list_all made right
\* after a successful mutation, or when the last refresh of the cache is
\* CACHE_DURATION or more ago, or when nothing is cached, fetches
C4_CachedAfterNonEmptyFetch ==
    [][ Did("list_all") =>
          /\ ( /\ last.op = "list_all"
               /\ last.fetched
               /\ Len(last.ret) > 0
               /\ clock - last.at < CACHE_DURATION )
             => (~last'.fetched /\ last'.ret = last.ret)
          /\ ( \/ last.op \in Mutators
               \/ cache_timestamp = NONE
               \/ clock - Val(cache_timestamp) >= CACHE_DURATION )
             => last'.fetched ]_vars

\* a list_all served from the cache some seconds after the list_all that
\* filled it
C4_Witness ==
    /\ last.op = "list_all"
    /\ last.prev = "list_all"
    /\ ~last.fetched
    /\ Len(last.ret) > 0
    /\ cache_timestamp # NONE
    /\ clock > Val(cache_timestamp)

(* C5: whatever a caller does to a list it got from list_all or               *)
(* list_filtered, the read cache keeps the tasks in store order with the      *)
(* values that were fetched.                                                  *)
C5_CacheKeepsStoreOrder ==
    todos_cache # NONE => Val(todos_cache) = ReadBack(sheet)

(* C6: add(title, content, due_date, priority) leaves the store with exactly  *)
(* one task more, which has those four values, the id add returned (decimal   *)
(* digits), the time of the add as created_at and an empty status, every      *)
(* task that existed being unchanged; the list_all that comes next returns    *)
(* that list.                                                                 *)
C6_AddRoundTrip ==
    [][ /\ Did("add") =>
              \E form \in Forms :
                 ReadBack(sheet') =
                     Append(ReadBack(sheet),
                            [id |-> last'.id, row |-> Len(sheet) + 1,
                             title |-> form[1], content |-> form[2],
                             due_date |-> form[3], priority |-> form[4],
                             created_at |-> strftime(clock), status |-> EMPTY])
        /\ Did("add") => IsDigit(last'.id)
        /\ (Did("list_all") /\ last.op = "add" /\ last'.readok) =>
              last'.ret = ReadBack(sheet') ]_vars

\* a list_all right after an add returned the new task behind an older one
C6_Witness ==
    /\ last.op = "list_all"
    /\ last.prev = "add"
    /\ last.readok
    /\ Len(last.ret) > 1
    /\ last.ret[Len(last.ret)].status = EMPTY
    /\ last.ret[Len(last.ret)].title # last.ret[1].title

(* C7: update(row, title, content, due_date, priority) on a row holding a     *)
(* task changes only the title, content, due_date and priority cells of that  *)
(* row: its id, created_at and status, and every cell of every other row,     *)
(* are unchanged.                                                             *)
C7_UpdateFrame ==
    [][ Did("update") =>
          /\ \E form \in Forms :
                \A j \in 2..5 : Cell(sheet', last'.row, j) = form[j - 1]
          /\ \A i \in 1..(MaxRows + 1), j \in 1..NCols :
                (i # last'.row \/ j \notin 2..5) =>
                    Cell(sheet', i, j) = Cell(sheet, i, j) ]_vars

\* an update has changed the title of a completed task, another task present
C7_Witness ==
    /\ last.op = "update"
    /\ Cell(sheet, last.row, 7) = COMPLETED
    /\ Cell(sheet, last.row, 2) = <<"b">>
    /\ Cell(sheet, last.row, 6) # EMPTY
    /\ Len(sheet) = 3

(* C8: delete(row) on a row holding a task removes exactly that task: a read  *)
(* afterwards returns no task with the deleted task's id, returns every other *)
(* task unchanged, those that were below the deleted row one row higher.      *)
C8_DeleteRemovesOne ==
    [][ Did("delete") =>
          LET before == ReadBack(sheet)
              after == ReadBack(sheet')
              k == last'.row - 1
              Shift(t) == IF t.row > last'.row THEN [t EXCEPT !.row = @ - 1] ELSE t
          IN  /\ \A i \in 1..Len(after) : after[i].id # before[k].id
              /\ after = [i \in 1..(Len(before) - 1) |-> Shift(RemoveAt(before, k)[i])]
      ]_vars

\* C8 without its clause on the id: the other tasks are kept, shifted
C8_OthersKept ==
    [][ Did("delete") =>
          LET before == ReadBack(sheet)
              after == ReadBack(sheet')
              k == last'.row - 1
              Shift(t) == IF t.row > last'.row THEN [t EXCEPT !.row = @ - 1] ELSE t
          IN  after = [i \in 1..(Len(before) - 1) |-> Shift(RemoveAt(before, k)[i])]
      ]_vars

(* C9: complete(row) on a row holding an open task sets only the status cell  *)
(* of that row, to "完了": afterwards the task is in list_filtered("完了"),   *)
(* not in list_filtered(None), and no other cell of the worksheet changed.    *)
C9_CompleteMovesTask ==
    [][ (Did("complete") /\ Cell(sheet, last'.row, 7) # COMPLETED) =>
          LET g == Globals'
              done == get_all_todos_filtered(g, clock, OK, Some(COMPLETED)).ret
              open == get_all_todos_filtered(g, clock, OK, NONE).ret
          IN  /\ Cell(sheet', last'.row, 7) = COMPLETED
              /\ \A i \in 1..(MaxRows + 1), j \in 1..NCols :
                    (i # last'.row \/ j # 7) => Cell(sheet', i, j) = Cell(sheet, i, j)
              /\ \E n \in 1..Len(done) : done[n].row = last'.row
              /\ \A n \in 1..Len(open) : open[n].row # last'.row ]_vars

\* a complete has closed the second of two tasks, the first still open
C9_Witness ==
    /\ last.op = "complete"
    /\ last.row = 3
    /\ Cell(sheet, 3, 7) = COMPLETED
    /\ Cell(sheet, 2, 7) # COMPLETED

(* C10: for any content of the store, list_filtered(None) and                 *)
(* list_filtered("完了") have no task in common and together hold exactly the *)
(* tasks of list_filtered("all").                                             *)
C10_FiltersPartition ==
    LET r1 == get_all_todos_filtered(Globals, clock, OK, NONE)
        r2 == get_all_todos_filtered(r1.g, clock, OK, Some(COMPLETED))
        r3 == get_all_todos_filtered(r2.g, clock, OK, Some(ALL))
        Set(l) == {l[i] : i \in 1..Len(l)}
    IN  /\ Set(r1.ret) \cap Set(r2.ret) = {}
        /\ Set(r1.ret) \cup Set(r2.ret) = Set(r3.ret)

\* list_filtered ran on a store with a task on hold and a completed task
C10_Witness ==
    /\ last.op = "list_filtered"
    /\ \E i \in 2..Len(sheet) : Cell(sheet, i, 7) = ON_HOLD
    /\ \E i \in 2..Len(sheet) : Cell(sheet, i, 7) = COMPLETED

-----------------------------------------------------------------------------
(* Schema resolution on a worksheet with any header row *)

WRONG == <<"x">>                 \* a cell value that belongs to no header

MaxHeader == 8                   \* cells of the longest initial header row

\* what cell j of an initial header row may hold: the schema's word, a foreign
\* value, and in column E the "作成日時" of the five-column header of line 128
HeaderCells(j) ==
    IF j > Len(HEADER) THEN {WRONG}
    ELSE {HEADER[j], WRONG} \cup (IF j = 5 THEN {H_CREATED} ELSE {})

RECURSIVE HeadersOfLen(_)
HeadersOfLen(n) ==
    IF n = 0 THEN {<<>>}
    ELSE {Append(h, c) : h \in HeadersOfLen(n - 1), c \in HeaderCells(n)}

InitHeaders == UNION {HeadersOfLen(n) : n \in 0..MaxHeader}

\* the number of worksheet.update calls the header repair makes (lines 131-160)
header_updates(sh) ==
    LET header_row == row_values(sh, 1)
    IN  IF Len(header_row) = 0 THEN 1
        ELSE IF header_row[1] # H_ID \/ Len(header_row) < 7 THEN
            IF Len(header_row) < 7 THEN
                IF Len(header_row) < 5 THEN 1
                ELSE IF Len(header_row) < 6 THEN 1
                ELSE IF header_row[5] # H_PRIORITY THEN 2 ELSE 1
            ELSE 1
        ELSE 0

\* the first seven cells of row 1
HeaderOf(sh) == SubSeq(PadRow(row_values(sh, 1), NCols), 1, NCols)

\* the record of a schema resolution: whether it returned (ok), whether it
\* was answered from the resolved-store cache (cached), the writes it issued,
\* row 1 before it, and whether a resolution had completed on this store before
ResolveReturns(r, io) ==
    /\ SetGlobals(r.g)
    /\ last' = [op |-> "resolve", ok |-> ~r.raised, cached |-> worksheet_cache,
                writes |-> IF worksheet_cache \/ r.raised THEN 0
                           ELSE header_updates(sheet),
                before |-> row_values(sheet, 1),
                again |-> last.op \in {"resolve", "clear"} /\ last.ok]
    /\ UNCHANGED <<clock, assigned, requests>>

\* a caller runs get_or_create_spreadsheet()
Resolve ==
    \E io \in Opens : ResolveReturns(get_or_create_spreadsheet(Globals, io), io)

\* clear_cache(), as every mutating operation ends
ClearCache ==
    /\ last.op = "resolve"
    /\ SetGlobals(clear_cache(Globals))
    /\ last' = [op |-> "clear", ok |-> last.ok]
    /\ UNCHANGED <<clock, assigned, requests>>

InitHeader ==
    /\ \E h \in InitHeaders :
          sheet \in {Normalise(<<h>>), Normalise(<<h, LegacyRow>>)}
    /\ todos_cache = NONE
    /\ cache_timestamp = NONE
    /\ worksheet_cache = FALSE
    /\ clock = 0
    /\ last = NoOp
    /\ assigned = {}
    /\ requests = NoRequests

NextHeader ==
    \/ Resolve
    \/ ClearCache
    \/ ListAll

SpecHeader == InitHeader /\ [][NextHeader]_vars

(* C11: after schema resolution has completed on a worksheet with any header  *)
(* row, the first seven cells of row 1 are the seven column names in order,   *)
(* and so they are whenever list_all has read the store.                      *)
C11_HeaderRepaired ==
    /\ (last.op = "resolve" /\ last.ok) => HeaderOf(sheet) = HEADER
    /\ (last.op = "list_all" /\ last.fetched) => HeaderOf(sheet) = HEADER

\* C11 holds of the headers that are empty, shorter than six cells or do not
\* start with "ID" at seven cells or more
C11_RepairedWhenRewritten ==
    (last.op = "resolve" /\ last.ok /\ ~last.cached /\
       (Len(last.before) < 6 \/ (Len(last.before) >= 7 /\ last.before[1] # H_ID)))
    => HeaderOf(sheet) = HEADER

(* C12: a schema resolution that follows a completed one on the same store,   *)
(* the resolved-store cache cleared in between or not, issues no write and    *)
(* leaves row 1 as it was.                                                    *)
C12_ResolveIdempotent ==
    (last.op = "resolve" /\ last.ok /\ last.again) =>
        /\ last.writes = 0
        /\ row_values(sheet, 1) = last.before

\* C12 holds when the first cell of the header is "ID"
C12_IdempotentWhenIdFirst ==
    (last.op = "resolve" /\ last.ok /\ last.again /\
       Len(last.before) > 0 /\ last.before[1] = H_ID) =>
        /\ last.writes = 0
        /\ row_values(sheet, 1) = last.before

-----------------------------------------------------------------------------
(* Failures of the backing store during a read *)

\* list_all with the backing store behaving as io says
ListAllWith(io) == ListAllReturns(get_all_todos(Globals, clock, io), io)

(* C13: whatever fails in the backing store during list_all, list_all returns *)
(* to its caller (with an empty list) and never raises.                       *)
C13_ListAllNeverRaises ==
    [][ ListAll => (last'.op = "list_all" /\ (~last'.readok => last'.ret = <<>>)) ]_vars

(* C13, amended: a failure of the backing store while list_all fetches the    *)
(* rows makes list_all return an empty list and leaves the read cache as it   *)
(* was; a failure while list_all resolves the store is raised to the caller.  *)
C13_FetchFailureGivesEmpty ==
    [][ /\ (ReadFails \in ReadIOs /\ ListAllWith(ReadFails)) =>
              /\ last'.op = "list_all"
              /\ last'.ret = <<>>
              /\ todos_cache' = todos_cache
              /\ cache_timestamp' = cache_timestamp
        /\ (OpenFails \in ReadIOs /\ ~CacheFresh(Globals, clock)
               /\ ListAllWith(OpenFails)) =>
              /\ last' = Raised
              /\ todos_cache' = todos_cache ]_vars

\* a list_all whose fetch failed has returned the empty list although the
\* store holds two tasks
C13_Witness ==
    /\ last.op = "list_all"
    /\ ~last.readok
    /\ last.ret = <<>>
    /\ Len(ReadBack(sheet)) = 2

-----------------------------------------------------------------------------
(* A store with rows written by hand or by an earlier version *)

FOREIGN_ID == <<"a", "b", "c">>          \* an id that is no decimal number
URGENT == <<"urgent">>                   \* a priority outside 高/中/低

\* rows a worksheet may hold besides those add_todo appends: a non-numeric
\* id, an empty priority cell, a foreign priority with no due date, a row of
\* two cells with a two-digit id, a row without an id, a row on hold
RowPool ==
    { <<FOREIGN_ID, <<"t">>, EMPTY, DUE_LATE, HIGH, strftime(0)>>,
      <<IntToStr(1), <<"t">>, EMPTY, DUE_EARLY, EMPTY, strftime(0)>>,
      <<IntToStr(9), <<"t">>, EMPTY, EMPTY, URGENT, strftime(0), COMPLETED>>,
      <<IntToStr(10), <<"t">>>>,
      <<EMPTY, <<"t">>, EMPTY, EMPTY, MEDIUM>>,
      LegacyRow }

RECURSIVE RowsOfLen(_)
RowsOfLen(n) ==
    IF n = 0 THEN {<<>>}
    ELSE {Append(rows, r) : rows \in RowsOfLen(n - 1), r \in RowPool}

InitLegacy ==
    /\ \E n \in 0..(MaxRows - 1) : \E rows \in RowsOfLen(n) :
          sheet = <<HEADER>> \o rows
    /\ todos_cache = NONE
    /\ cache_timestamp = NONE
    /\ worksheet_cache = FALSE
    /\ clock = 0
    /\ last = NoOp
    /\ assigned = {}
    /\ requests = NoRequests

\* add on a store with any ids: r is what add_todo did
AddAnyReturns(r, io) ==
    /\ Len(r.g.sheet) <= MaxRows + 1
    /\ SetGlobals(r.g)
    /\ last' = IF r.raised THEN Raised
               ELSE [NoOp EXCEPT !.op = "add", !.id = r.id,
                                 !.readok = ~io.read_fails]
    /\ UNCHANGED <<clock, assigned, requests>>

\* add with the backing store behaving as io says
AddAnyWith(io) ==
    \E form \in Forms : AddAnyReturns(add_todo(Globals, clock, io, form), io)

AddAny == \E io \in AddIOs : AddAnyWith(io)

\* GET / as the browser shows it: the query and the list rendered
IndexShownReturns(r, q) ==
    /\ SetGlobals(r.g)
    /\ last' = [op |-> "index", ok |-> TRUE, query |-> q, ret |-> r.ret]
    /\ UNCHANGED <<clock, assigned, requests>>

IndexShown ==
    \E io \in ReadIOs, q \in ViewQueries :
        IndexShownReturns(index(Globals, clock, io, q[1], q[2], q[3], q[4]), q)

NextLegacy ==
    \/ AddAny
    \/ ListAll
    \/ ListFiltered

SpecLegacy == InitLegacy /\ [][NextLegacy]_vars

\* the listing view over such a store
NextView ==
    \/ IndexShown
    \/ Delete

SpecView == InitLegacy /\ [][NextView]_vars

\* the numeric ids among the id cells of a worksheet
NumericIdCells(sh) ==
    {ParseInt(Ids(sh)[i]) : i \in {j \in 1..Len(Ids(sh)) : IsDigit(Ids(sh)[j])}}

(* C14: for every store content, an add whose calls to the backing store      *)
(* succeed completes and appends a row; its id is 1 plus the numerically      *)
(* largest numeric id in the store, "1" when no id in the store is numeric.   *)
C14_AddIgnoresNonNumeric ==
    [][ AddAnyWith(OK) =>
          /\ last'.op = "add"
          /\ Len(sheet') = Len(sheet) + 1
          /\ last'.id = IF NumericIdCells(sheet) = {} THEN IntToStr(1)
                        ELSE IntToStr(MaxOf(NumericIdCells(sheet)) + 1) ]_vars

\* C14 holds of a store that holds no task or a task with a numeric id
C14_NextOfNumericMax ==
    [][ (AddAnyWith(OK) /\ (TaskRows(sheet) = {} \/ NumericIdCells(sheet) # {})) =>
          /\ last'.op = "add"
          /\ Len(sheet') = Len(sheet) + 1
          /\ last'.id = IF NumericIdCells(sheet) = {} THEN IntToStr(1)
                        ELSE IntToStr(MaxOf(NumericIdCells(sheet)) + 1) ]_vars

\* the rows of a worksheet that hold a task, top to bottom
RECURSIVE TaskRowSeq(_, _)
TaskRowSeq(sh, i) ==
    IF i > Len(sh) THEN <<>>
    ELSE (IF i \in TaskRows(sh) THEN <<i>> ELSE <<>>) \o TaskRowSeq(sh, i + 1)

\* the three filtered reads of the present store, every call succeeding
FilteredReads ==
    {get_all_todos_filtered(Globals, clock, OK, f).ret : f \in StatusFilters}

(* C15: every task list_all and list_filtered return has an id that is a      *)
(* non-empty string of decimal digits.                                        *)
C15_ReadsOnlyNumericIds ==
    /\ last.op = "list_all" => \A i \in 1..Len(last.ret) : IsDigit(last.ret[i].id)
    /\ last.op = "list_filtered" =>
          \A l \in FilteredReads : \A i \in 1..Len(l) : IsDigit(l[i].id)

(* C15, amended: every task list_all and list_filtered return has a non-empty *)
(* id; a list_all that fetches returns one task for every row below the       *)
(* header whose id cell is not empty, numeric or not, in row order and with   *)
(* the id of the cell, and no task for a row whose id cell is empty.          *)
C15_ReadsNonEmptyIds ==
    /\ \A l \in FilteredReads : \A i \in 1..Len(l) : l[i].id # EMPTY
    /\ (last.op = "list_all" /\ last.fetched /\ last.readok) =>
          /\ Len(last.ret) = Len(TaskRowSeq(sheet, 2))
          /\ \A i \in 1..Len(last.ret) :
                /\ last.ret[i].row = TaskRowSeq(sheet, 2)[i]
                /\ last.ret[i].id = Cell(sheet, last.ret[i].row, 1)
                /\ last.ret[i].id # EMPTY

\* a list_all has returned a task with a non-numeric id from a store that
\* also holds a row without an id
C15_Witness ==
    /\ last.op = "list_all"
    /\ last.fetched
    /\ \E i \in 1..Len(last.ret) : ~IsDigit(last.ret[i].id)
    /\ \E i \in 2..Len(sheet) : Cell(sheet, i, 1) = EMPTY

(* C16: every task list_all returns has a priority among 高, 中 and 低.       *)
C16_PriorityInRange ==
    last.op = "list_all" =>
        \A i \in 1..Len(last.ret) : last.ret[i].priority \in {HIGH, MEDIUM, LOW}

\* what list_all returns as priority is the priority cell as it is stored
C16_PriorityIsCell ==
    (last.op = "list_all" /\ last.fetched /\ last.readok) =>
        \A i \in 1..Len(last.ret) :
            last.ret[i].priority = Cell(sheet, last.ret[i].row, 5)

-----------------------------------------------------------------------------
(* app.py: the requests that write, with any row in the URL *)

\* the rows a request may name: the header row, the rows in use, one beyond
RowArgs == 1..(MaxRows + 1)

\* POST /edit/<row> after its read (app.py lines 135-163); r: what
\* get_all_todos_filtered("all") did.  A row that holds no task is answered
\* with a redirect and nothing is written.
edit_post(r, io, row, form) ==
    IF r.raised THEN WriteResult(r.g, TRUE)
    ELSE IF \A i \in 1..Len(r.ret) : r.ret[i].row # row THEN WriteResult(r.g, FALSE)
    ELSE update_todo(r.g, io, row, form)

\* POST /edit/<row>
edit(g, now, io, row, form) ==
    edit_post(get_all_todos_filtered(g, now, io, Some(ALL)), io, row, form)

HttpEdit ==
    \E io \in AddIOs, row \in RowArgs, form \in Forms :
        WriteReturns(edit(Globals, clock, io, row, form), "edit", row)

\* POST /delete/<row>
HttpDelete ==
    \E io \in WriteIOs, row \in RowArgs :
        WriteReturns(delete_todo(Globals, io, row), "delete", row)

\* POST /complete/<row>
HttpComplete ==
    \E io \in WriteIOs, row \in RowArgs :
        WriteReturns(complete_todo(Globals, io, row), "complete", row)

NextHttp ==
    \/ Add
    \/ HttpEdit
    \/ HttpDelete
    \/ HttpComplete

SpecHttp == Init /\ [][NextHttp]_vars

(* C17: whatever add, edit, delete and complete requests are made, with any   *)
(* positive row, row 1 of the worksheet holds the seven column names: no      *)
(* request removes or overwrites the header row or puts task data in it.      *)
C17_HeaderRowKept == HeaderOf(sheet) = HEADER

\* C17 holds of the requests that name a row below the header, and of edit
\* with any row
C17_HeaderKeptBelowRowOne ==
    [][ (HeaderOf(sheet) = HEADER /\ (last'.row # 1 \/ last'.op = "edit")) =>
            HeaderOf(sheet') = HEADER ]_vars

-----------------------------------------------------------------------------
(* The due_date sort of the listing view *)

\* the listing view has rendered a list sorted by due_date
ShownByDue == last.op = "index" /\ last.query[4] = SORT_DUE

(* C18: in a list sorted by due_date no task without a due_date stands before *)
(* a task with one, the due_dates of the tasks that have one ascend, and of   *)
(* two tasks with the same due_date the one of higher priority stands first   *)
(* (高 before 中 before 低, any other priority counted as 中).                *)
C18_DueSortOrder ==
    ShownByDue =>
        \A i, j \in 1..Len(last.ret) :
            i < j =>
                /\ ~(last.ret[i].due_date = EMPTY /\ last.ret[j].due_date # EMPTY)
                /\ (last.ret[i].due_date # EMPTY /\ last.ret[j].due_date # EMPTY) =>
                       StrLeq(last.ret[i].due_date, last.ret[j].due_date)
                /\ last.ret[i].due_date = last.ret[j].due_date =>
                       priority_order(last.ret[i].priority)
                           >= priority_order(last.ret[j].priority)

\* C18 with the ties the other way round: of two tasks with the same due_date
\* the one of lower priority stands first
C18_DueSortLowFirst ==
    ShownByDue =>
        \A i, j \in 1..Len(last.ret) :
            i < j =>
                /\ ~(last.ret[i].due_date = EMPTY /\ last.ret[j].due_date # EMPTY)
                /\ (last.ret[i].due_date # EMPTY /\ last.ret[j].due_date # EMPTY) =>
                       StrLeq(last.ret[i].due_date, last.ret[j].due_date)
                /\ last.ret[i].due_date = last.ret[j].due_date =>
                       priority_order(last.ret[i].priority)
                           <= priority_order(last.ret[j].priority)

-----------------------------------------------------------------------------
(* Two add requests served by two threads, no lock *)

Threads == {"t1", "t2"}

\* a request that has not entered add_todo
Idle == [pc |-> "idle", form |-> <<>>, id |-> EMPTY, before |-> <<>>]

\* line 269: the request resolves the store
ConcResolveReturns(t, r, form) ==
    /\ ~r.raised
    /\ SetGlobals(r.g)
    /\ requests' = [requests EXCEPT ![t] = [Idle EXCEPT !.pc = "read", !.form = form]]
    /\ UNCHANGED <<clock, last, assigned>>

ConcResolve(t) ==
    /\ requests[t].pc = "idle"
    /\ \E form \in Forms :
          ConcResolveReturns(t, get_or_create_spreadsheet(Globals, OK), form)

\* lines 272-277: the request reads the tasks and computes its id; before is
\* what the id column of the store holds at that moment
ConcReadReturns(t, r) ==
    /\ ~r.raised
    /\ ~new_id_raises(r.ret)
    /\ SetGlobals(r.g)
    /\ requests' = [requests EXCEPT ![t].pc = "append", ![t].id = new_id(r.ret),
                                    ![t].before = Ids(sheet)]
    /\ UNCHANGED <<clock, last, assigned>>

ConcRead(t) ==
    /\ requests[t].pc = "read"
    /\ ConcReadReturns(t, get_all_todos_filtered(Globals, clock, OK, Some(ALL)))

\* the id add_todo computes from a store whose id column is ids
NextIdOf(ids) ==
    LET nums == {ParseInt(ids[i]) : i \in {j \in 1..Len(ids) : IsDigit(ids[j])}}
    IN  IF nums = {} THEN IntToStr(1) ELSE IntToStr(MaxOf(nums) + 1)

\* the append were it to compute the id again from the store it writes to
ConcAppend_recomputed(t) ==
    /\ requests[t].pc = "append"
    /\ sheet' = append_row(sheet, new_row(NextIdOf(Ids(sheet)), requests[t].form,
                                          strftime(clock)))
    /\ requests' = [requests EXCEPT ![t].pc = "clear"]
    /\ UNCHANGED <<todos_cache, cache_timestamp, worksheet_cache, clock, last, assigned>>

\* lines 280-284: the request appends its row
ConcAppend(t) ==
    /\ requests[t].pc = "append"
    /\ sheet' = append_row(sheet, new_row(requests[t].id, requests[t].form,
                                          strftime(clock)))
    /\ requests' = [requests EXCEPT ![t].pc = "clear"]
    /\ UNCHANGED <<todos_cache, cache_timestamp, worksheet_cache, clock, last, assigned>>

\* line 287: the request clears the caches and returns
ConcClear(t) ==
    /\ requests[t].pc = "clear"
    /\ SetGlobals(clear_cache(Globals))
    /\ requests' = [requests EXCEPT ![t].pc = "done"]
    /\ UNCHANGED <<clock, last, assigned>>

InitConc ==
    /\ sheet \in InitSheets
    /\ todos_cache = NONE
    /\ cache_timestamp = NONE
    /\ worksheet_cache = FALSE
    /\ clock = 0
    /\ last = NoOp
    /\ assigned = {}
    /\ requests = [t \in Threads |-> Idle]

NextConc ==
    \E t \in Threads :
        \/ ConcResolve(t)
        \/ ConcRead(t)
        \/ ConcAppend(t)
        \/ ConcClear(t)

SpecConc == InitConc /\ [][NextConc]_vars

\* request t has read the tasks
HasRead(t) == requests[t].pc \in {"append", "clear", "done"}

\* both requests have read the tasks before either appended its row
BothReadFirst ==
    /\ \A t \in Threads : HasRead(t)
    /\ requests["t1"].before = requests["t2"].before

(* C19: when two concurrent adds both read the task list before either        *)
(* appends its row, both are assigned the same id, the successor of the       *)
(* largest id they read, and once both have appended the store holds two      *)
(* tasks with that id.                                                        *)
C19_RaceGivesEqualIds ==
    BothReadFirst =>
        /\ requests["t1"].id = requests["t2"].id
        /\ requests["t1"].id = NextIdOf(requests["t1"].before)
        /\ (\A t \in Threads : requests[t].pc \in {"clear", "done"}) =>
              Ids(sheet) = requests["t1"].before
                               \o <<requests["t1"].id, requests["t2"].id>>

\* both requests have returned after such a race on a store that held a task,
\* and the tasks they added differ in title
C19_Witness ==
    /\ BothReadFirst
    /\ \A t \in Threads : requests[t].pc = "done"
    /\ requests["t1"].form # requests["t2"].form
    /\ Len(requests["t1"].before) = 1
    /\ Len(ReadBack(sheet)) = 3
    /\ ReadBack(sheet)[2].id = ReadBack(sheet)[3].id

-----------------------------------------------------------------------------
(* One thread, every call to the backing store succeeding *)

\* a task row with the given id
TaskRow(id) == <<id, <<"t">>, EMPTY, DUE_LATE, MEDIUM, strftime(0), EMPTY>>

\* stores whose tasks have pairwise distinct numeric ids: in order, out of
\* order, with a gap in the ids, and with an id written with a leading zero
InitDistinctSheets ==
    InitSheets \cup
    { <<HEADER, TaskRow(IntToStr(3)), TaskRow(IntToStr(1))>>,
      <<HEADER, TaskRow(<<"0", "2">>), LegacyRow, TaskRow(IntToStr(1))>> }

InitOk ==
    /\ sheet \in InitDistinctSheets
    /\ todos_cache = NONE
    /\ cache_timestamp = NONE
    /\ worksheet_cache = FALSE
    /\ clock = 0
    /\ last = NoOp
    /\ assigned = {}
    /\ requests = NoRequests

\* add with every call succeeding: r is what add_todo did
AddOkReturns(r) ==
    /\ ~r.raised
    /\ Len(r.g.sheet) <= MaxRows + 1
    /\ ParseInt(r.id) <= MaxId + 1
    /\ SetGlobals(r.g)
    /\ last' = [op |-> "add", ok |-> TRUE, id |-> r.id, before |-> Ids(sheet)]
    /\ UNCHANGED <<clock, assigned, requests>>

AddOk == \E form \in Forms : AddOkReturns(add_todo(Globals, clock, OK, form))

\* update, delete or complete with every call succeeding
WriteOkReturns(r, op) ==
    /\ ~r.raised
    /\ SetGlobals(r.g)
    /\ last' = [op |-> op, ok |-> TRUE, id |-> EMPTY, before |-> Ids(sheet)]
    /\ UNCHANGED <<clock, assigned, requests>>

UpdateOk ==
    \E row \in TaskRows(sheet), form \in Forms :
        WriteOkReturns(update_todo(Globals, OK, row, form), "update")

DeleteOk ==
    \E row \in TaskRows(sheet) :
        WriteOkReturns(delete_todo(Globals, OK, row), "delete")

CompleteOk ==
    \E row \in TaskRows(sheet) :
        WriteOkReturns(complete_todo(Globals, OK, row), "complete")

NextOk ==
    \/ AddOk
    \/ UpdateOk
    \/ DeleteOk
    \/ CompleteOk
    \/ ListAllWith(OK)

SpecOk == InitOk /\ [][NextOk]_vars

\* the ids of the tasks a read finds in the store are pairwise distinct
DistinctIds(todos) ==
    \A i, j \in 1..Len(todos) : todos[i].id = todos[j].id => i = j

(* C20: starting from a store whose tasks have pairwise distinct numeric ids, *)
(* after any sequence of add, update, complete and delete operations of one   *)
(* thread in which every call to the backing store succeeds, no two tasks in  *)
(* the store have the same id.                                                *)
C20_IdsDistinct == DistinctIds(ReadBack(sheet))

\* an add has just run on a store of two tasks out of id order, and the store
\* now holds three tasks
C20_Witness ==
    /\ last.op = "add"
    /\ Len(last.before) = 2
    /\ ParseInt(last.before[1]) > ParseInt(last.before[2])
    /\ Len(ReadBack(sheet)) = 3

-----------------------------------------------------------------------------
(* Add when its own read of the tasks fails *)

\* the id the add just made is the id of no task the store held before it
AddedIdIsNew ==
    \A i \in 1..Len(ReadBack(sheet)) : ReadBack(sheet)[i].id # last'.id

(* C21: add never appends a row whose id equals the id of a task already in   *)
(* the store, also when the read of the task list inside add fails and        *)
(* degrades to an empty list: it then appends no row with id "1" while a      *)
(* task with id "1" exists.                                                   *)
C21_AddNeverDuplicates == [][Did("add") => AddedIdIsNew]_vars

\* what does hold: an add whose own read of the tasks succeeded appends a row
\* with an id no task in the store had
C21_NewWhenReadSucceeds == [][(Did("add") /\ last'.readok) => AddedIdIsNew]_vars

=============================================================================
